---- MODULE Spec2Model ----
(***************************************************************************)
(* Model of hanzifier-ext/scripts: the dataset preparation pipeline        *)
(* (prepare_dataset.py) and the suffix codec of lib/morph_en.py and        *)
(* lib/morph_ru.py.                                                        *)
(*                                                                         *)
(* A Python str is a sequence of code points (integers); a Python set is a *)
(* set; a dict is a function whose DOMAIN is the set of keys.              *)
(***************************************************************************)
EXTENDS Integers, Sequences, FiniteSets, TLC

VARIABLES
  \* ---- _select_roots called on its own (pure function) ----
  en_roots, ru_roots, max_roots, tagged, sel_pc,
  \* ---- encode_suffix_variants called on its own (pure function) ----
  lemma, forms, drop_non_prefix, encoded, codec_pc,
  \* ---- one call of _collect_meanings ----
  hanzi_list, en_map, ru_map, oracle,
  dataset, en_cache, ru_cache, hanzi_idx, meanings, seen_meanings,
  selected_roots, root_idx, variants, todo, col_pc,
  en_calls, ru_calls,
  \* ---- the output stage of main, over several runs into one directory ----
  files, run_no, out_dataset, wr_pc, wr_file, wr_payload, wr_before, wr_idx

selVars   == <<en_roots, ru_roots, max_roots, tagged, sel_pc>>
codecVars == <<lemma, forms, drop_non_prefix, encoded, codec_pc>>
colVars   == <<hanzi_list, en_map, ru_map, oracle, dataset, en_cache, ru_cache,
               hanzi_idx, meanings, seen_meanings, selected_roots, root_idx,
               variants, todo, col_pc, en_calls, ru_calls>>
wrVars    == <<files, run_no, out_dataset, wr_pc, wr_file, wr_payload, wr_before, wr_idx>>
vars      == <<selVars, codecVars, colVars, wrVars>>

(***************************************************************************)
(* Bounds of the model.                                                    *)
(***************************************************************************)
MaxCand   == 2   \* longest candidate list handed to _select_roots on its own
MaxRootsArg == 4 \* largest max_roots argument tried
NegRootsArg == 2 \* max_roots ranges over -NegRootsArg .. MaxRootsArg
MaxStrLen == 2   \* longest lemma / form handed to the codec on its own
MaxForms  == 1   \* most forms in one codec call made on its own
MaxHanzi  == 3   \* longest frequency list
MaxRuns   == 2   \* runs of main into the same output directory
MaxChunks == 2   \* a dataset has at most MaxChunks full chunks ...
MaxRem    == 1   \* ... plus or minus at most MaxRem records

(***************************************************************************)
(* Strings.                                                                *)
(***************************************************************************)
HASH   == 35     \* '#'
CYR_A  == 1072   \* 'а' (U+0430)
CYR_YA == 1103   \* 'я' (U+044F)
CYR_YO == 1105   \* 'ё' (U+0451)

Min(a, b) == IF a <= b THEN a ELSE b
Max(a, b) == IF a >= b THEN a ELSE b
Range(s) == {s[k] : k \in 1..Len(s)}

\* All sequences over S of length at most n.
SeqsUpTo(S, n) == UNION {[1..k -> S] : k \in 0..n}

\* All subsets of S with at most n elements.
RECURSIVE SetsUpTo(_, _)
SetsUpTo(S, n) ==
  IF n = 0 THEN {{}}
  ELSE LET P == SetsUpTo(S, n - 1) IN P \cup {p \cup {x} : p \in P, x \in S}

\* str.lower() on one code point: A-Z, the Cyrillic capitals U+0410..U+042F
\* (+32) and U+0400..U+040F (+80, so 'Ё' U+0401 gives 'ё' U+0451).
Lower(ch) ==
  IF 65 <= ch /\ ch <= 90 THEN ch + 32
  ELSE IF 1040 <= ch /\ ch <= 1071 THEN ch + 32
  ELSE IF 1024 <= ch /\ ch <= 1039 THEN ch + 80
  ELSE ch

\* form.startswith(lemma)
StartsWith(form, lem) ==
  Len(lem) <= Len(form) /\ SubSeq(form, 1, Len(lem)) = lem

\* form[len(lemma):]
SuffixAfter(form, lem) == SubSeq(form, Len(lem) + 1, Len(form))

\* seq[:n], with Python's meaning of a negative n (count from the end).
SliceTo(s, n) ==
  IF n >= 0 THEN SubSeq(s, 1, Min(n, Len(s)))
  ELSE SubSeq(s, 1, Max(0, Len(s) + n))

(***************************************************************************)
(* prepare_dataset.py: _dedupe_preserve and _select_roots.                 *)
(***************************************************************************)
\* The loop of _dedupe_preserve: words[k..] still to scan, seen, ordered.
RECURSIVE DedupeLoop(_, _, _, _)
DedupeLoop(words, k, seen, ordered) ==
  IF k > Len(words) THEN ordered
  ELSE IF words[k] \in seen THEN DedupeLoop(words, k + 1, seen, ordered)
  ELSE DedupeLoop(words, k + 1, seen \cup {words[k]}, Append(ordered, words[k]))

_dedupe_preserve(words) == DedupeLoop(words, 1, {}, <<>>)

\* any("а" <= ch.lower() <= "я" or ch.lower() == "ё" for ch in word)
HasCyrillic(word) ==
  \E k \in 1..Len(word) :
    \/ (CYR_A <= Lower(word[k]) /\ Lower(word[k]) <= CYR_YA)
    \/ Lower(word[k]) = CYR_YO

LangOf(word) == IF HasCyrillic(word) THEN "ru" ELSE "en"

\* combined[:max_roots]
Truncate_NoLimit(combined, n) == combined
Truncate(combined, n) == SliceTo(combined, n)

\* en_roots + ru_roots
Concat_SecondaryFirst(en, ru) == ru \o en
Concat(en, ru) == en \o ru

_select_roots(en, ru, n) ==
  LET combined == _dedupe_preserve(Concat(en, ru))
      selected == Truncate(combined, n)
  IN [k \in 1..Len(selected) |-> <<selected[k], LangOf(selected[k])>>]

(***************************************************************************)
(* lib/morph_en.py and lib/morph_ru.py: encode_suffix_variants.            *)
(***************************************************************************)
\* One iteration of the loop: the tokens one form adds to `encoded`.
EncodeForm_SuffixOffByOne(lem, form, drop) ==
  IF form = lem THEN {lem}
  ELSE IF StartsWith(form, lem) THEN
    LET suffix == SubSeq(form, Len(lem) + 2, Len(form))
    IN {IF suffix # <<>> THEN lem \o <<HASH>> \o suffix ELSE lem}
  ELSE IF ~drop THEN {form}
  ELSE {}

EncodeForm(lem, form, drop) ==
  IF form = lem THEN {lem}
  ELSE IF StartsWith(form, lem) THEN
    LET suffix == SuffixAfter(form, lem)
    IN {IF suffix # <<>> THEN lem \o <<HASH>> \o suffix ELSE lem}
  ELSE IF ~drop THEN {form}
  ELSE {}

\* morph_en.encode_suffix_variants
encode_en_suffixes(lem, fs, drop) == UNION {EncodeForm(lem, f, drop) : f \in fs}

\* morph_ru.encode_suffix_variants (a verbatim copy of the English one)
EncodeFormRu(lem, form, drop) ==
  IF form = lem THEN {lem}
  ELSE IF StartsWith(form, lem) THEN
    LET suffix == SuffixAfter(form, lem)
    IN {IF suffix # <<>> THEN lem \o <<HASH>> \o suffix ELSE lem}
  ELSE IF ~drop THEN {form}
  ELSE {}

encode_ru_suffixes(lem, fs, drop) == UNION {EncodeFormRu(lem, f, drop) : f \in fs}

\* The inverse the data model states for a token: 'lemma#suffix' reads as
\* lemma+suffix (split at the first '#'), a token without '#' as itself.
HasHash(s) == \E k \in 1..Len(s) : s[k] = HASH
FirstHash(s) == CHOOSE k \in 1..Len(s) : s[k] = HASH /\ \A m \in 1..(k - 1) : s[m] # HASH
Decode(token) ==
  IF HasHash(token)
  THEN SubSeq(token, 1, FirstHash(token) - 1) \o SubSeq(token, FirstHash(token) + 1, Len(token))
  ELSE token

(***************************************************************************)
(* Parts of the state a specification does not use stay at rest.           *)
(***************************************************************************)
SelIdle ==
  /\ en_roots = <<>> /\ ru_roots = <<>> /\ max_roots = 0
  /\ tagged = <<>> /\ sel_pc = "off"

CodecIdle ==
  /\ lemma = <<>> /\ forms = {} /\ drop_non_prefix = FALSE
  /\ encoded = {} /\ codec_pc = "off"

ColIdle ==
  /\ hanzi_list = <<>> /\ en_map = <<>> /\ ru_map = <<>> /\ oracle = 0
  /\ dataset = <<>> /\ en_cache = <<>> /\ ru_cache = <<>>
  /\ hanzi_idx = 0 /\ meanings = <<>> /\ seen_meanings = {}
  /\ selected_roots = <<>> /\ root_idx = 0 /\ variants = {} /\ todo = {}
  /\ col_pc = "off" /\ en_calls = <<>> /\ ru_calls = <<>>

WrIdle ==
  /\ files = <<>> /\ run_no = 0 /\ out_dataset = <<>> /\ wr_pc = "off"
  /\ wr_file = <<>> /\ wr_payload = <<>> /\ wr_before = "none" /\ wr_idx = 0

(***************************************************************************)
(* SpecSelect: _select_roots applied to arbitrary candidate lists.         *)
(***************************************************************************)
\* 'a', 'b', 'я', 'Яa'
SelWords == {<<97>>, <<98>>, <<CYR_YA>>, <<1071, 97>>}

InitSelect ==
  /\ en_roots \in SeqsUpTo(SelWords, MaxCand)
  /\ ru_roots \in SeqsUpTo(SelWords, MaxCand)
  /\ max_roots \in (0 - NegRootsArg)..MaxRootsArg
  /\ tagged = <<>>
  /\ sel_pc = "call"
  /\ CodecIdle /\ ColIdle /\ WrIdle

SelectRoots ==
  /\ sel_pc = "call"
  /\ tagged' = _select_roots(en_roots, ru_roots, max_roots)
  /\ sel_pc' = "done"
  /\ UNCHANGED <<en_roots, ru_roots, max_roots, codecVars, colVars, wrVars>>

NextSelect == SelectRoots

SpecSelect == InitSelect /\ [][NextSelect]_vars

SelectedWords == [k \in 1..Len(tagged) |-> tagged[k][1]]

NoRepeat(s) == \A p, q \in 1..Len(s) : p # q => s[p] # s[q]

\* C1 (as stated): for every value of max_roots the result has at most max_roots
\* entries and no word appears twice in it.
C1_BoundAnyMaxRoots ==
  sel_pc = "done" => Len(tagged) <= max_roots /\ NoRepeat(SelectedWords)

\* C1 (amended): no word appears twice in the result for any max_roots, and the
\* result has at most max_roots entries whenever max_roots >= 0.
C1_BoundNonNegative ==
  sel_pc = "done" =>
    /\ NoRepeat(SelectedWords)
    /\ (max_roots >= 0 => Len(tagged) <= max_roots)

\* The bound cuts a longer deduplicated list, and one word is in both inputs.
C1_Witness ==
  /\ sel_pc = "done"
  /\ max_roots >= 1
  /\ Len(tagged) = max_roots
  /\ Cardinality(Range(en_roots) \cup Range(ru_roots)) > max_roots
  /\ Range(en_roots) \cap Range(ru_roots) # {}

\* The first occurrences of s, in order, stated by positions.
FirstOccurrences(s) ==
  LET K == {k \in 1..Len(s) : \A m \in 1..(k - 1) : s[m] # s[k]}
      Nth(i) == CHOOSE k \in K : Cardinality({m \in K : m < k}) = i - 1
  IN [i \in 1..Cardinality(K) |-> s[Nth(i)]]

\* C9: for max_roots >= 0 the result is the first max_roots first-occurrences of
\* en_roots followed by ru_roots, each tagged by script; a word that only the
\* secondary list holds is selected only when the primary list has fewer than
\* max_roots distinct words.
C9_PositionalPriority ==
  (sel_pc = "done" /\ max_roots >= 0) =>
    LET firsts == FirstOccurrences(en_roots \o ru_roots)
        n == Min(max_roots, Len(firsts))
    IN /\ Len(tagged) = n
       /\ \A k \in 1..n :
            /\ tagged[k][1] = firsts[k]
            /\ tagged[k][2] = (IF HasCyrillic(firsts[k]) THEN "ru" ELSE "en")
       /\ \A k \in 1..Len(tagged) :
            tagged[k][1] \notin Range(en_roots) =>
              Cardinality(Range(en_roots)) < max_roots

\* Default max_roots: a secondary word fills the last slot, another is cut off.
C9_Witness ==
  /\ sel_pc = "done"
  /\ max_roots = 3
  /\ Len(tagged) = 3
  /\ tagged[3][1] \notin Range(en_roots)
  /\ tagged[3][2] = "ru"
  /\ \E w \in Range(ru_roots) : w \notin Range(SelectedWords)

(***************************************************************************)
(* SpecCodec: encode_suffix_variants (both copies) on arbitrary input.     *)
(***************************************************************************)
\* Strings over 'a', 'b', '#'.
CodecStrings == SeqsUpTo({97, 98, HASH}, MaxStrLen)

InitCodec ==
  /\ lemma \in CodecStrings
  /\ forms \in SetsUpTo(CodecStrings, MaxForms)
  /\ drop_non_prefix \in BOOLEAN
  /\ encoded = {}
  /\ codec_pc = "call"
  /\ SelIdle /\ ColIdle /\ WrIdle

EncodeEn ==
  /\ codec_pc = "call"
  /\ encoded' = encode_en_suffixes(lemma, forms, drop_non_prefix)
  /\ codec_pc' = "en"
  /\ UNCHANGED <<lemma, forms, drop_non_prefix, selVars, colVars, wrVars>>

EncodeRu ==
  /\ codec_pc = "call"
  /\ encoded' = encode_ru_suffixes(lemma, forms, drop_non_prefix)
  /\ codec_pc' = "ru"
  /\ UNCHANGED <<lemma, forms, drop_non_prefix, selVars, colVars, wrVars>>

NextCodec == EncodeEn \/ EncodeRu

SpecCodec == InitCodec /\ [][NextCodec]_vars

\* The call was encode(L, [F]) with L a literal prefix of F.
OnePrefixForm ==
  /\ codec_pc \in {"en", "ru"}
  /\ Cardinality(forms) = 1
  /\ \A f \in forms : StartsWith(f, lemma)

\* C2 (as stated): for every lemma L and form F with prefix L, encode(L, [F]) is
\* one token and decoding it gives {F}.
C2_RoundTripAnyLemma ==
  OnePrefixForm =>
    /\ Cardinality(encoded) = 1
    /\ {Decode(t) : t \in encoded} = forms

\* C2 (amended): the same for every lemma L that contains no '#'.
C2_RoundTripNoHashLemma ==
  (OnePrefixForm /\ ~HasHash(lemma)) =>
    /\ Cardinality(encoded) = 1
    /\ {Decode(t) : t \in encoded} = forms

\* A proper suffix was encoded behind a non-empty lemma, non-prefix forms dropped.
C2_Witness ==
  /\ OnePrefixForm /\ ~HasHash(lemma)
  /\ lemma # <<>>
  /\ drop_non_prefix
  /\ codec_pc = "ru"
  /\ \E f \in forms : Len(f) > Len(lemma) /\ encoded = {lemma \o <<HASH>> \o SuffixAfter(f, lemma)}

(***************************************************************************)
(* The surface-form oracles (WordNet lemmatizer, lemminflect, pymorphy2)   *)
(* are libraries outside the repository.  A run fixes one oracle; the      *)
(* model draws it from sample tables that cover what the calling code      *)
(* distinguishes: WordNet present or absent, an empty (falsy) lemma, a     *)
(* lemma other than the word, forms with and without the lemma as prefix,  *)
(* an unparsed word, an empty normal form, an empty lexeme word.           *)
(***************************************************************************)
W_ab  == <<97, 98>>          \* "ab"
W_abb == <<97, 98, 98>>      \* "abb"
W_ba  == <<98, 97>>          \* "ba"
W_bb  == <<98, 98>>          \* "bb"
R_yy  == <<CYR_YA, CYR_YA>>          \* "яя"
R_yyy == <<CYR_YA, CYR_YA, CYR_YA>>  \* "яяя"
R_ay  == <<CYR_A, CYR_YA>>           \* "ая"

POS == {"n", "v", "a", "r"}

OracleTables ==
  << \* 1: WordNet present; "abb" is a form of "ab", "bb" an irregular one;
     \*    the lemmatizer gives "" for "ba" as a verb
     [ wordnet |-> TRUE,
       lemmatize |-> (<<W_abb, "n">> :> W_ab) @@ (<<W_ba, "v">> :> <<>>),
       inflections |-> (W_ab :> {W_abb, W_bb}) @@ (W_ba :> {W_ba \o <<97>>}),
       parse |-> (R_yyy :> <<[normal_form |-> R_yy, lexeme |-> {R_yy, R_yyy, R_ay}]>>)
                 @@ (R_yy :> <<[normal_form |-> R_yy, lexeme |-> {R_yy, R_yyy, R_ay}]>>) ],
     \* 2: WordNet absent; "яя" is not parsed; "яяя" has no normal form and an
     \*    empty lexeme word
     [ wordnet |-> FALSE,
       lemmatize |-> (<<W_abb, "n">> :> W_ab),
       inflections |-> (W_ab :> {W_abb}) @@ (W_abb :> {W_abb \o <<97>>, W_ba}),
       parse |-> (R_yy :> <<>>)
                 @@ (R_yyy :> <<[normal_form |-> <<>>,
                                 lexeme |-> {<<>>, R_yyy \o <<CYR_A>>, R_yy}]>>) ] >>

OracleIds == DOMAIN OracleTables

\* _LEMMATIZER.lemmatize(word, pos=pos): WordNet gives back the word it does not know.
WordNetLemmatize(word, pos) ==
  LET t == OracleTables[oracle].lemmatize
  IN IF <<word, pos>> \in DOMAIN t THEN t[<<word, pos>>] ELSE word

\* The union of getAllInflections(lemma).values().
getAllInflections(lem) ==
  LET t == OracleTables[oracle].inflections
  IN IF lem \in DOMAIN t THEN t[lem] ELSE {}

\* _MORPH.parse(word): a list of parses, best first.
MorphParse(word) ==
  LET t == OracleTables[oracle].parse
  IN IF word \in DOMAIN t THEN t[word]
     ELSE <<[normal_form |-> word, lexeme |-> {word}]>>

\* morph_en.lemmatize_variants
lemmatize_variants(word) ==
  IF ~OracleTables[oracle].wordnet THEN {word}
  ELSE {word} \cup {l \in {WordNetLemmatize(word, pos) : pos \in POS} : l # <<>>}

\* morph_en.generate_inflections
generate_inflections(word) ==
  UNION {{l} \cup getAllInflections(l) : l \in lemmatize_variants(word)}

\* morph_ru.generate_lexeme_forms: <<lemma, forms>>
generate_lexeme_forms(word) ==
  LET parsed == MorphParse(word)
  IN IF parsed = <<>> THEN <<word, {word}>>
     ELSE LET best == parsed[1]
              lem == IF best.normal_form # <<>> THEN best.normal_form ELSE word
          IN <<lem, {lem} \cup {f \in best.lexeme : f # <<>>}>>

\* The drop_non_prefix argument both expansion functions pass.
DropNonPrefix_Keep == FALSE
DropNonPrefixArg == TRUE

_expand_english_word(word) ==
  UNION {encode_en_suffixes(l, generate_inflections(l), DropNonPrefixArg) :
           l \in lemmatize_variants(word)}

_expand_russian_word(word) ==
  LET lf == generate_lexeme_forms(word)
  IN encode_ru_suffixes(lf[1], lf[2], DropNonPrefixArg)

(***************************************************************************)
(* prepare_dataset.py: _collect_meanings, one step per loop iteration.     *)
(***************************************************************************)
DEFAULT_MAX_ROOTS == 3

\* dict.get(key, [])
Get(map, key) == IF key \in DOMAIN map THEN map[key] ELSE <<>>

\* cache[word] = value
Put(cache, word, value) ==
  [w \in DOMAIN cache \cup {word} |-> IF w = word THEN value ELSE cache[w]]

\* `word in cache` (the miss test is its negation)
InCache_Never(cache, word) == FALSE
InCache(cache, word) == word \in DOMAIN cache

\* `variant in seen_meanings`
AlreadySeen_Never(variant, seen) == FALSE
AlreadySeen(variant, seen) == variant \in seen

\* dataset.append({"hanzi": hanzi, "meanings": meanings})
AppendEntry_SkipEmpty(ds, hanzi, ms) ==
  IF ms = <<>> THEN ds ELSE Append(ds, [hanzi |-> hanzi, meanings |-> ms])
AppendEntry(ds, hanzi, ms) == Append(ds, [hanzi |-> hanzi, meanings |-> ms])

\* Number of times the expansion function ran for a word (not program state).
Calls(counter, word) == IF word \in DOMAIN counter THEN counter[word] ELSE 0

Hanzi == {"h1", "h2", "h3"}

\* Candidate maps as the extractors build them: lower-case words of two or more
\* letters of one script, no word twice in a list; "h3" has no candidate.
EnMaps ==
  { ("h1" :> <<W_ab, W_abb>>) @@ ("h2" :> <<W_ab>>),
    ("h1" :> <<W_ba>>) }
RuMaps ==
  { ("h1" :> <<R_yy, R_yyy>>) @@ ("h2" :> <<R_yyy>>),
    <<>> }

InitCollect ==
  /\ hanzi_list \in SeqsUpTo(Hanzi, MaxHanzi)
  /\ en_map \in EnMaps
  /\ ru_map \in RuMaps
  /\ oracle \in OracleIds
  /\ dataset = <<>> /\ en_cache = <<>> /\ ru_cache = <<>>
  /\ hanzi_idx = 1
  /\ meanings = <<>> /\ seen_meanings = {}
  /\ selected_roots = <<>> /\ root_idx = 0
  /\ variants = {} /\ todo = {}
  /\ col_pc = "hanzi"
  /\ en_calls = <<>> /\ ru_calls = <<>>
  /\ SelIdle /\ CodecIdle /\ WrIdle

colInputs == <<hanzi_list, en_map, ru_map, oracle>>
CurHanzi == hanzi_list[hanzi_idx]
CurWord == selected_roots[root_idx][1]
CurLang == selected_roots[root_idx][2]

\* for hanzi in hanzi_list: ... selected_roots = _select_roots(...)
StartHanzi ==
  /\ col_pc = "hanzi"
  /\ hanzi_idx <= Len(hanzi_list)
  /\ meanings' = <<>>
  /\ seen_meanings' = {}
  /\ selected_roots' = _select_roots(Get(en_map, CurHanzi), Get(ru_map, CurHanzi),
                                     DEFAULT_MAX_ROOTS)
  /\ root_idx' = 1
  /\ col_pc' = "root"
  /\ UNCHANGED <<colInputs, dataset, en_cache, ru_cache, hanzi_idx, variants, todo,
                 en_calls, ru_calls, selVars, codecVars, wrVars>>

\* return dataset
ReturnDataset ==
  /\ col_pc = "hanzi"
  /\ hanzi_idx > Len(hanzi_list)
  /\ col_pc' = "done"
  /\ UNCHANGED <<colInputs, dataset, en_cache, ru_cache, hanzi_idx, meanings,
                 seen_meanings, selected_roots, root_idx, variants, todo,
                 en_calls, ru_calls, selVars, codecVars, wrVars>>

AtRoot == col_pc = "root" /\ root_idx <= Len(selected_roots)

\* lang == "ru", word not in ru_cache
ExpandRussian ==
  /\ AtRoot /\ CurLang = "ru"
  /\ ~InCache(ru_cache, CurWord)
  /\ ru_cache' = Put(ru_cache, CurWord, _expand_russian_word(CurWord))
  /\ ru_calls' = Put(ru_calls, CurWord, Calls(ru_calls, CurWord) + 1)
  /\ variants' = ru_cache'[CurWord]
  /\ todo' = variants'
  /\ col_pc' = "variant"
  /\ UNCHANGED <<colInputs, dataset, en_cache, hanzi_idx, meanings, seen_meanings,
                 selected_roots, root_idx, en_calls, selVars, codecVars, wrVars>>

\* lang == "ru", word in ru_cache
HitRussian ==
  /\ AtRoot /\ CurLang = "ru"
  /\ InCache(ru_cache, CurWord)
  /\ variants' = ru_cache[CurWord]
  /\ todo' = variants'
  /\ col_pc' = "variant"
  /\ UNCHANGED <<colInputs, dataset, en_cache, ru_cache, hanzi_idx, meanings,
                 seen_meanings, selected_roots, root_idx, en_calls, ru_calls,
                 selVars, codecVars, wrVars>>

\* lang == "en", word not in en_cache
ExpandEnglish ==
  /\ AtRoot /\ CurLang # "ru"
  /\ ~InCache(en_cache, CurWord)
  /\ en_cache' = Put(en_cache, CurWord, _expand_english_word(CurWord))
  /\ en_calls' = Put(en_calls, CurWord, Calls(en_calls, CurWord) + 1)
  /\ variants' = en_cache'[CurWord]
  /\ todo' = variants'
  /\ col_pc' = "variant"
  /\ UNCHANGED <<colInputs, dataset, ru_cache, hanzi_idx, meanings, seen_meanings,
                 selected_roots, root_idx, ru_calls, selVars, codecVars, wrVars>>

\* lang == "en", word in en_cache
HitEnglish ==
  /\ AtRoot /\ CurLang # "ru"
  /\ InCache(en_cache, CurWord)
  /\ variants' = en_cache[CurWord]
  /\ todo' = variants'
  /\ col_pc' = "variant"
  /\ UNCHANGED <<colInputs, dataset, en_cache, ru_cache, hanzi_idx, meanings,
                 seen_meanings, selected_roots, root_idx, en_calls, ru_calls,
                 selVars, codecVars, wrVars>>

\* for variant in variants (a set: any order): a token not seen yet is appended
AddVariant ==
  /\ col_pc = "variant"
  /\ \E variant \in todo :
       /\ ~AlreadySeen(variant, seen_meanings)
       /\ seen_meanings' = seen_meanings \cup {variant}
       /\ meanings' = Append(meanings, variant)
       /\ todo' = todo \ {variant}
  /\ UNCHANGED <<colInputs, dataset, en_cache, ru_cache, hanzi_idx, selected_roots,
                 root_idx, variants, col_pc, en_calls, ru_calls,
                 selVars, codecVars, wrVars>>

\* for variant in variants: a token already seen is skipped (continue)
SkipVariant ==
  /\ col_pc = "variant"
  /\ \E variant \in todo :
       /\ AlreadySeen(variant, seen_meanings)
       /\ todo' = todo \ {variant}
  /\ UNCHANGED <<colInputs, dataset, en_cache, ru_cache, hanzi_idx, meanings,
                 seen_meanings, selected_roots, root_idx, variants, col_pc,
                 en_calls, ru_calls, selVars, codecVars, wrVars>>

\* the variants of this root are exhausted: next root
EndRoot ==
  /\ col_pc = "variant"
  /\ todo = {}
  /\ root_idx' = root_idx + 1
  /\ col_pc' = "root"
  /\ UNCHANGED <<colInputs, dataset, en_cache, ru_cache, hanzi_idx, meanings,
                 seen_meanings, selected_roots, variants, todo, en_calls, ru_calls,
                 selVars, codecVars, wrVars>>

\* the roots are exhausted: dataset.append(...), next character
EndHanzi ==
  /\ col_pc = "root"
  /\ root_idx > Len(selected_roots)
  /\ dataset' = AppendEntry(dataset, CurHanzi, meanings)
  /\ hanzi_idx' = hanzi_idx + 1
  /\ col_pc' = "hanzi"
  /\ UNCHANGED <<colInputs, en_cache, ru_cache, meanings, seen_meanings,
                 selected_roots, root_idx, variants, todo, en_calls, ru_calls,
                 selVars, codecVars, wrVars>>

NextCollect ==
  \/ StartHanzi \/ ReturnDataset
  \/ ExpandRussian \/ HitRussian \/ ExpandEnglish \/ HitEnglish
  \/ AddVariant \/ SkipVariant \/ EndRoot \/ EndHanzi

SpecCollect == InitCollect /\ [][NextCollect]_vars

\* The head of the loop over hanzi_list, and the return: the dataset changes only
\* on the way to the loop head, so every value it takes is seen there.
AtLoopHead == col_pc \in {"hanzi", "done"}

\* The key of the current root is being served (its VariantSet was just fetched).
Serving == col_pc = "variant"

\* C3: in one call of _collect_meanings the expansion function runs at most once
\* per (word, language) key, a key is in the cache exactly when it ran, every
\* request is served the stored VariantSet, and a stored entry is never removed or
\* replaced.
C3_CacheInv ==
  /\ \A w \in DOMAIN en_calls : en_calls[w] <= 1
  /\ \A w \in DOMAIN ru_calls : ru_calls[w] <= 1
  /\ DOMAIN en_cache = {w \in DOMAIN en_calls : en_calls[w] = 1}
  /\ DOMAIN ru_cache = {w \in DOMAIN ru_calls : ru_calls[w] = 1}
  /\ Serving =>
       variants = (IF CurLang = "ru" THEN ru_cache[CurWord] ELSE en_cache[CurWord])

C3_EntriesKept ==
  /\ \A w \in DOMAIN en_cache : w \in DOMAIN en_cache' /\ en_cache'[w] = en_cache[w]
  /\ \A w \in DOMAIN ru_cache : w \in DOMAIN ru_cache' /\ ru_cache'[w] = ru_cache[w]

\* C3: expansion at most once per key, every request served from the stored
\* VariantSet (C3_CacheInv, in every state), and no stored entry ever removed or
\* replaced (C3_EntriesKept, in every step).
C3_AtMostOnce == [](C3_CacheInv) /\ [][C3_EntriesKept]_vars

\* A later character asks for a word an earlier character already expanded.
C3_Witness ==
  /\ Serving
  /\ hanzi_idx >= 2
  /\ CurLang = "en"
  /\ Calls(en_calls, CurWord) = 1
  /\ \E i \in 1..(hanzi_idx - 1) :
       /\ hanzi_list[i] # CurHanzi
       /\ CurWord \in Range(Get(en_map, hanzi_list[i]))
       /\ dataset[i].meanings # <<>>

\* C7: the dataset follows the frequency list entry by entry (one entry per
\* element, same order, repeats kept), is complete on return, and a character
\* with no candidate in either map has an entry with no meanings.
C7_OrderAndCompleteness ==
  /\ Len(dataset) <= Len(hanzi_list)
  /\ col_pc \in {"hanzi", "root", "variant", "done"} =>
       Len(dataset) = hanzi_idx - 1
  /\ col_pc = "done" => Len(dataset) = Len(hanzi_list)
  /\ \A i \in 1..Len(dataset) :
       /\ dataset[i].hanzi = hanzi_list[i]
       /\ (hanzi_list[i] \notin DOMAIN en_map /\ hanzi_list[i] \notin DOMAIN ru_map)
            => dataset[i].meanings = <<>>

\* A finished run whose list repeats a character and holds one without candidates
\* before one with meanings.
C7_Witness ==
  /\ col_pc = "done"
  /\ Len(dataset) = 3
  /\ hanzi_list[1] = hanzi_list[3]
  /\ hanzi_list[1] \notin DOMAIN en_map /\ hanzi_list[1] \notin DOMAIN ru_map
  /\ dataset[1].meanings = <<>>
  /\ dataset[2].meanings # <<>>
  /\ dataset[3].meanings = <<>>

\* The VariantSet of a tagged root, computed afresh.
VariantSetOf(root) ==
  IF root[2] = "ru" THEN _expand_russian_word(root[1])
  ELSE _expand_english_word(root[1])

RootsOf(hanzi) ==
  _select_roots(Get(en_map, hanzi), Get(ru_map, hanzi), DEFAULT_MAX_ROOTS)

\* C8: at every step seen_meanings is the set of elements of meanings and no
\* token is in meanings twice; every entry of the dataset (read whenever an entry
\* was appended) holds exactly the union of the
\* VariantSets of the character's selected roots, each token once, ordered by the
\* first root (in SelectedRoots order) whose VariantSet holds it.
C8_MeaningSequence ==
  /\ seen_meanings = Range(meanings)
  /\ NoRepeat(meanings)
  /\ AtLoopHead => \A i \in 1..Len(dataset) :
       LET ms == dataset[i].meanings
           roots == RootsOf(dataset[i].hanzi)
           vs == [k \in 1..Len(roots) |-> VariantSetOf(roots[k])]
           union == UNION {vs[k] : k \in 1..Len(roots)}
           firstRoot == [t \in union |->
                           CHOOSE k \in 1..Len(roots) :
                             t \in vs[k] /\ \A j \in 1..(k - 1) : t \notin vs[j]]
       IN /\ NoRepeat(ms)
          /\ Range(ms) = union
          /\ \A p, q \in 1..Len(ms) : p < q => firstRoot[ms[p]] <= firstRoot[ms[q]]

\* An entry built from three roots, two of which share a token.
C8_Witness ==
  \E i \in 1..Len(dataset) :
    LET roots == RootsOf(dataset[i].hanzi)
    IN /\ Len(roots) = 3
       /\ \E j, k \in 1..3 :
            j < k /\ VariantSetOf(roots[j]) \cap VariantSetOf(roots[k]) # {}
       /\ Len(dataset[i].meanings) >= 4

\* A token is the lemma, or lemma#suffix for a form of fs that extends the lemma.
PrefixToken(token, lem, fs) ==
  \/ token = lem
  \/ \E f \in fs :
       /\ StartsWith(f, lem)
       /\ Len(f) > Len(lem)
       /\ token = lem \o <<HASH>> \o SuffixAfter(f, lem)

EnglishTokenOk(word, token) ==
  \E l \in lemmatize_variants(word) : PrefixToken(token, l, generate_inflections(l))

RussianTokenOk(word, token) ==
  PrefixToken(token, generate_lexeme_forms(word)[1], generate_lexeme_forms(word)[2])

\* C10: every token of every cached VariantSet is a lemma of the root or
\* lemma#suffix (suffix not empty) for a form the oracle gave that extends the
\* lemma; every VariantSet holds its bare lemma(s), an English one the root word
\* itself; every meaning of the dataset (read whenever an entry was appended) is
\* such a token of one of its roots.
C10_PrefixDecodable ==
  /\ \A w \in DOMAIN en_cache :
       /\ w \in en_cache[w]
       /\ lemmatize_variants(w) \subseteq en_cache[w]
       /\ \A t \in en_cache[w] : EnglishTokenOk(w, t)
  /\ \A w \in DOMAIN ru_cache :
       /\ generate_lexeme_forms(w)[1] \in ru_cache[w]
       /\ \A t \in ru_cache[w] : RussianTokenOk(w, t)
  /\ AtLoopHead => \A i \in 1..Len(dataset) :
       \A t \in Range(dataset[i].meanings) :
         \E k \in 1..Len(RootsOf(dataset[i].hanzi)) :
           LET root == RootsOf(dataset[i].hanzi)[k]
           IN IF root[2] = "ru" THEN RussianTokenOk(root[1], t)
              ELSE EnglishTokenOk(root[1], t)

\* The oracle gave a form without the lemma as prefix; the entry holds a suffix
\* token of that lemma and nothing of the irregular form.
C10_Witness ==
  \E i \in 1..Len(dataset) :
    \E w \in DOMAIN en_cache :
      \E l \in lemmatize_variants(w) :
        \E f \in generate_inflections(l) :
          /\ ~StartsWith(f, l)
          /\ f \notin Range(dataset[i].meanings)
          /\ \E t \in en_cache[w] :
               HasHash(t) /\ StartsWith(t, l) /\ t \in Range(dataset[i].meanings)

(***************************************************************************)
(* prepare_dataset.py: the output stage of main (_write_json, _write_lists,*)
(* _summarize), run repeatedly into the same output directory.  A file is  *)
(* the records written to it so far and whether the payload is complete.   *)
(***************************************************************************)
chunk_size == 100

\* Decimal digits of n, most significant first.
RECURSIVE Digits(_)
Digits(n) == IF n < 10 THEN <<n>> ELSE Digits(n \div 10) \o <<n % 10>>

\* f"{n:03d}": zero-padded to width 3, longer numbers kept whole.
RECURSIVE ZeroPad3(_)
ZeroPad3(ds) == IF Len(ds) < 3 THEN ZeroPad3(<<0>> \o ds) ELSE ds
Format03d(n) == ZeroPad3(Digits(n))

\* args.output_dir / "hanzi-meanings.json"
FullFile == <<"processed", <<>>>>
\* out_dir / f"list_{list_number:03d}.json"
ListFile(list_number) == <<"lists", Format03d(list_number)>>

\* dataset[idx : idx + chunk_size], idx counted from 0
ChunkAt(ds, idx) == SubSeq(ds, idx + 1, Min(idx + chunk_size, Len(ds)))

\* Lengths a run's dataset may have: around the chunk boundaries.
DatasetLengths ==
  {n \in {q * chunk_size + r : q \in 0..MaxChunks, r \in (0 - MaxRem)..MaxRem} : n >= 0}

InitWrite ==
  /\ files = <<>>
  /\ run_no = 0
  /\ out_dataset = <<>>
  /\ wr_pc = "idle"
  /\ wr_file = <<>> /\ wr_payload = <<>> /\ wr_before = "none" /\ wr_idx = 0
  /\ SelIdle /\ CodecIdle /\ ColIdle

\* main: dataset = _collect_meanings(...); _write_json(full file, dataset) begins
StartRun ==
  /\ wr_pc \in {"idle", "done"}
  /\ run_no < MaxRuns
  /\ run_no' = run_no + 1
  /\ \E n \in DatasetLengths : out_dataset' = [k \in 1..n |-> <<run_no + 1, k>>]
  /\ wr_file' = FullFile
  /\ wr_payload' = out_dataset'
  /\ wr_idx' = 0
  /\ wr_pc' = "open"
  /\ UNCHANGED <<files, wr_before, selVars, codecVars, colVars>>

\* _write_json: path.open("w") creates the file or truncates it to nothing
OpenFile ==
  /\ wr_pc = "open"
  /\ wr_before' = (IF wr_file \in DOMAIN files THEN files[wr_file] ELSE "none")
  /\ files' = Put(files, wr_file, [recs |-> <<>>, complete |-> FALSE])
  /\ wr_pc' = "write"
  /\ UNCHANGED <<run_no, out_dataset, wr_file, wr_payload, wr_idx,
                 selVars, codecVars, colVars>>

\* _write_json: json.dump streams the payload into the file, record by record
WriteRecord ==
  /\ wr_pc = "write"
  /\ Len(files[wr_file].recs) < Len(wr_payload)
  /\ files' = Put(files, wr_file,
                  [recs |-> Append(files[wr_file].recs,
                                   wr_payload[Len(files[wr_file].recs) + 1]),
                   complete |-> FALSE])
  /\ UNCHANGED <<run_no, out_dataset, wr_pc, wr_file, wr_payload, wr_before, wr_idx,
                 selVars, codecVars, colVars>>

\* _write_json: the payload is written out and the file closed
CloseFile ==
  /\ wr_pc = "write"
  /\ Len(files[wr_file].recs) = Len(wr_payload)
  /\ files' = Put(files, wr_file, [recs |-> wr_payload, complete |-> TRUE])
  /\ wr_idx' = (IF wr_file = FullFile THEN 0 ELSE wr_idx + chunk_size)
  /\ wr_pc' = "lists"
  /\ UNCHANGED <<run_no, out_dataset, wr_file, wr_payload, wr_before,
                 selVars, codecVars, colVars>>

\* _write_lists: for idx in range(0, len(dataset), chunk_size): next chunk file
NextChunk ==
  /\ wr_pc = "lists"
  /\ wr_idx < Len(out_dataset)
  /\ wr_file' = ListFile(wr_idx \div chunk_size + 1)
  /\ wr_payload' = ChunkAt(out_dataset, wr_idx)
  /\ wr_pc' = "open"
  /\ UNCHANGED <<files, run_no, out_dataset, wr_before, wr_idx,
                 selVars, codecVars, colVars>>

\* _write_lists returns; _summarize only prints; main returns
FinishRun ==
  /\ wr_pc = "lists"
  /\ wr_idx >= Len(out_dataset)
  /\ wr_pc' = "done"
  /\ UNCHANGED <<files, run_no, out_dataset, wr_file, wr_payload, wr_before, wr_idx,
                 selVars, codecVars, colVars>>

\* The run is interrupted (killed, or an I/O error propagates) while
\* _write_json has its file open.  The directory is followed no further after
\* an interruption (no rerun on top of a broken run).
Interrupt ==
  /\ wr_pc = "write"
  /\ wr_pc' = "interrupted"
  /\ UNCHANGED <<files, run_no, out_dataset, wr_file, wr_payload, wr_before, wr_idx,
                 selVars, codecVars, colVars>>

NextWrite ==
  \/ StartRun \/ OpenFile \/ WriteRecord \/ CloseFile
  \/ NextChunk \/ FinishRun \/ Interrupt

SpecWrite == InitWrite /\ [][NextWrite]_vars

\* The number a chunk file name carries.
RECURSIVE NumberOf(_)
NumberOf(ds) ==
  IF ds = <<>> THEN 0 ELSE 10 * NumberOf(SubSeq(ds, 1, Len(ds) - 1)) + ds[Len(ds)]

ListFilesPresent == {f \in DOMAIN files : f[1] = "lists"}
ListNumbers == {NumberOf(f[2]) : f \in ListFilesPresent}
FileNumbered(n) == CHOOSE f \in ListFilesPresent : NumberOf(f[2]) = n

\* The chunk files present, concatenated in ascending sequence number.
RECURSIVE ConcatChunks(_)
ConcatChunks(nums) ==
  IF nums = {} THEN <<>>
  ELSE LET last == CHOOSE n \in nums : \A m \in nums : m <= n
       IN ConcatChunks(nums \ {last}) \o files[FileNumbered(last)].recs

\* C5: after a completed run (any number of runs into the directory) the chunk
\* files present are numbered 1..k, hold 100 records each except the last, and
\* concatenated in that order give the records of the full dataset file.
C5_ChunksReproduceDataset ==
  wr_pc = "done" =>
    /\ ListNumbers = 1..Cardinality(ListFilesPresent)
    /\ ConcatChunks(ListNumbers) = files[FullFile].recs
    /\ \A n \in ListNumbers :
         n < Cardinality(ListFilesPresent) =>
           Len(files[FileNumbered(n)].recs) = chunk_size

\* C6: after an interruption of _write_json the file it was writing holds its
\* complete previous content (or does not exist) or the complete new payload.
C6_AllOrNothing ==
  wr_pc = "interrupted" =>
    \/ wr_file \notin DOMAIN files /\ wr_before = "none"
    \/ wr_file \in DOMAIN files /\ wr_before # "none" /\ files[wr_file] = wr_before
    \/ wr_file \in DOMAIN files
         /\ files[wr_file] = [recs |-> wr_payload, complete |-> TRUE]

====
